---- MODULE Spec2Model ----
(***************************************************************************)
(* A model of rapidwire.py: the RapidWireClient HTTP client.               *)
(*                                                                         *)
(* The client is single-threaded and synchronous.  A call has one          *)
(* suspension point, the network wait inside _request: an operation sends  *)
(* one request (it is then in flight, `wire`), the exchange completes with *)
(* a response or a transport failure chosen by the environment, and the    *)
(* rest of the handler (_request's status handling, the dataclass mapping  *)
(* of the endpoint method, for the constructor the rest of _check_version) *)
(* runs to its outcome.                                                    *)
(*                                                                         *)
(* Python strings are sequences of characters (one-character TLA+ strings) *)
(* where the code looks inside them (symbols, version strings) and         *)
(* sequences of literal chunks elsewhere; the empty string is << >>.       *)
(* Python and JSON values are tagged records.                              *)
(***************************************************************************)
EXTENDS Integers, Sequences, FiniteSets, TLC

VARIABLES phase, session, wire, frame, last, stdout, checks, attempts

vars == <<phase, session, wire, frame, last, stdout, checks, attempts>>

(***************************************************************************)
(* Bounds of the model.                                                    *)
(***************************************************************************)
\* longest symbol argument, in characters
MaxSymLen == 2

\* longest version string reported by the server, in characters
MaxVerLen == 2

(***************************************************************************)
(* Strings.                                                                *)
(***************************************************************************)
RECURSIVE SeqsUpTo(_, _)
SeqsUpTo(S, n) ==
    IF n = 0 THEN {<< >>}
    ELSE LET shorter == SeqsUpTo(S, n - 1)
         IN  shorter \cup {Append(s, c) : s \in shorter, c \in S}

\* str.upper() on one character; characters without a case are unchanged
UpperChar(c) ==
    CASE c = "a" -> "A"
      [] c = "b" -> "B"
      [] OTHER   -> c

\* str.upper()
Upper(s) == [i \in 1..Len(s) |-> UpperChar(s[i])]

\* s.split('.')[0]: the characters before the first '.', all of s without one
RECURSIVE SplitFirst(_)
SplitFirst(s) ==
    IF s = << >> \/ Head(s) = "." THEN << >>
    ELSE <<Head(s)>> \o SplitFirst(Tail(s))

\* base_url.rstrip('/')
RECURSIVE RStripSlash(_)
RStripSlash(s) ==
    IF s # << >> /\ s[Len(s)] = "/" THEN RStripSlash(SubSeq(s, 1, Len(s) - 1))
    ELSE s

CLIENT_VERSION == <<"1", ".", "0", ".", "0">>

(***************************************************************************)
(* Python values (JSON decodes into these).                                *)
(***************************************************************************)
None == [t |-> "None"]

PyInt(n) == [t |-> "int", n |-> n]

PyStr(s) == [t |-> "str", s |-> s]

PyDict(f) == [t |-> "dict", f |-> f]

PyList(a) == [t |-> "list", a |-> a]

\* an instance of one of the dataclasses
Instance(cls, f) == [t |-> "inst", cls |-> cls, f |-> f]

EmptyDict == PyDict(<< >>)

\* bool(v), as `not v` evaluates it
Truthy(v) ==
    CASE v.t = "None" -> FALSE
      [] v.t = "int"  -> v.n # 0
      [] v.t = "str"  -> v.s # << >>
      [] v.t = "dict" -> DOMAIN v.f # {}
      [] v.t = "list" -> v.a # << >>
      [] OTHER        -> TRUE

(***************************************************************************)
(* Outcomes of a call: a returned value or a raised exception.             *)
(***************************************************************************)
Return(v) == [kind |-> "return", value |-> v]

Raise(exc) == [kind |-> "raise", exc |-> exc]

\* RapidWireAPIError(status_code, detail)
RapidWireAPIError(status_code, detail) ==
    [kind |-> "raise", exc |-> "RapidWireAPIError",
     status_code |-> status_code, detail |-> detail]

(***************************************************************************)
(* The dataclasses.                                                        *)
(***************************************************************************)
Classes ==
    {"CurrencyInfo", "StockInfo", "Balance", "HistoryEntry", "UserOrder",
     "OrderbookEntry", "Orderbook", "LiquidityInfo", "Config", "SuccessResponse"}

\* the declared type of every field
FieldTypes(cls) ==
    CASE cls = "CurrencyInfo" ->
           [id |-> "int", symbol |-> "str", name |-> "str", supply |-> "int",
            issuer_id |-> "opt_int", description |-> "opt_str"]
      [] cls = "StockInfo" ->
           [id |-> "int", symbol |-> "str", name |-> "str", supply |-> "int",
            issuer_id |-> "opt_int", industry |-> "opt_str", overview |-> "opt_str"]
      [] cls = "Balance" ->
           [currencies |-> "dict_str_int", stocks |-> "dict_str_int"]
      [] cls = "HistoryEntry" ->
           [type |-> "str", operation_type |-> "str", timestamp |-> "int",
            source |-> "int", dest |-> "int", symbol |-> "str", amount |-> "int"]
      [] cls = "UserOrder" ->
           [order_id |-> "int", stock_symbol |-> "str", price |-> "int",
            amount |-> "int", timestamp |-> "int"]
      [] cls = "OrderbookEntry" ->
           [price |-> "int", amount |-> "int"]
      [] cls = "Orderbook" ->
           [stock_symbol |-> "str", orders |-> "list_OrderbookEntry"]
      [] cls = "LiquidityInfo" ->
           [currency_symbol |-> "str", base_liquidity |-> "int",
            pair_liquidity |-> "int", total_lp_points |-> "int"]
      [] cls = "Config" ->
           [decimal_places |-> "int", base_currency |-> "CurrencyInfo"]
      [] cls = "SuccessResponse" ->
           [message |-> "str", details |-> "opt_dict"]

Fields(cls) == DOMAIN FieldTypes(cls)

\* the fields declared with a default value, and the default
Defaults(cls) ==
    IF cls = "SuccessResponse" THEN [details |-> None] ELSE << >>

Required(cls) == Fields(cls) \ DOMAIN Defaults(cls)

\* cls(**data), the __init__ that @dataclass generates: data must be a
\* mapping, every key must name a field, every field without a default must
\* be given; the values are stored as they are
Construct(cls, data) ==
    IF data.t # "dict" THEN Raise("TypeError")
    ELSE IF ~ (DOMAIN data.f \subseteq Fields(cls)) THEN Raise("TypeError")
    ELSE IF ~ (Required(cls) \subseteq DOMAIN data.f) THEN Raise("TypeError")
    ELSE Return(Instance(cls,
                  [k \in Fields(cls) |->
                      IF k \in DOMAIN data.f THEN data.f[k] ELSE Defaults(cls)[k]]))

(***************************************************************************)
(* HTTP exchanges.  A response carries its status code, its body text      *)
(* (response.text) and what response.json() makes of the body: a Python    *)
(* value, or Undecodable when it raises requests' JSONDecodeError.  A      *)
(* transport failure carries str(e) of the RequestException.               *)
(***************************************************************************)
Undecodable == [t |-> "undecodable"]

HttpResponse(status_code, text, json) ==
    [kind |-> "http", status_code |-> status_code, text |-> text, json |-> json]

TransportFailure(error) == [kind |-> "failure", error |-> error]

\* response.ok: the status is no 4xx or 5xx
Ok(response) == response.status_code < 400

\* str(e) of the JSONDecodeError that response.json() raises
JSONDecodeErrorText == <<"Expecting value: line 1 column 1 (char 0)">>

\* the status code of the error raised for a RequestException
RequestFailedStatus == 500

\* RequestFailed with the detail left to str(e) alone
RequestFailedBare(error) ==
    RapidWireAPIError(RequestFailedStatus, PyStr(error))

\* the except clause of _request: RequestException -> RapidWireAPIError
RequestFailed(error) ==
    RapidWireAPIError(RequestFailedStatus, PyStr(<<"Request failed: ">> \o error))

\* the `if not response.ok` block of _request, for a response that is not ok.
\* RapidWireAPIError is no RequestException and AttributeError is not one
\* either: neither is caught by the except clause of _request.
ErrorResponse(response) ==
    IF response.json = Undecodable
    THEN RapidWireAPIError(response.status_code, PyStr(response.text))
    ELSE IF response.json.t # "dict"
    THEN Raise("AttributeError")
    ELSE RapidWireAPIError(response.status_code,
             IF "detail" \in DOMAIN response.json.f
             THEN response.json.f.detail
             ELSE PyStr(<<"Unknown error">>))

\* the status of a response without content
NoContent == 204

\* the handling of a response that is ok
OkResponse(response) ==
    IF response.status_code = NoContent THEN Return(None)
    ELSE IF response.json = Undecodable
    THEN RequestFailed(JSONDecodeErrorText)
    ELSE Return(response.json)

\* _request, from the completion of session.request on
RequestOutcome(exchange) ==
    IF exchange.kind = "failure" THEN RequestFailed(exchange.error)
    ELSE IF ~ Ok(exchange) THEN ErrorResponse(exchange)
    ELSE OkResponse(exchange)

(***************************************************************************)
(* Response mapping in the endpoint methods.                               *)
(***************************************************************************)
\* data[key] with a string key
Subscript(data, key) ==
    IF data.t # "dict" THEN Raise("TypeError")
    ELSE IF key \notin DOMAIN data.f THEN Raise("KeyError")
    ELSE Return(data.f[key])

\* [cls(**entry) for entry in data].  Iterating a dict or a str yields
\* strings, which cls(**entry) rejects; None and int are not iterable.
Comprehension(cls, data) ==
    IF data.t = "list"
    THEN IF \A i \in 1..Len(data.a) : Construct(cls, data.a[i]).kind = "return"
         THEN Return(PyList([i \in 1..Len(data.a) |-> Construct(cls, data.a[i]).value]))
         ELSE Raise("TypeError")
    ELSE IF data.t \in {"dict", "str"}
    THEN IF Truthy(data) THEN Raise("TypeError") ELSE Return(PyList(<< >>))
    ELSE Raise("TypeError")

\* data[key] = value; return cls(**data)
AssignAndConstruct(cls, data, key, value) ==
    Construct(cls, PyDict([data.f EXCEPT ![key] = value]))

\* get_config after _request has returned data
MapConfig(data) ==
    LET sub == Subscript(data, "base_currency")
    IN  IF sub.kind = "raise" THEN sub
        ELSE LET cur == Construct("CurrencyInfo", sub.value)
             IN  IF cur.kind = "raise" THEN cur
                 ELSE AssignAndConstruct("Config", data, "base_currency", cur.value)

\* get_stock_orderbook after _request has returned data
MapOrderbook(data) ==
    LET sub == Subscript(data, "orders")
    IN  IF sub.kind = "raise" THEN sub
        ELSE LET entries == Comprehension("OrderbookEntry", sub.value)
             IN  IF entries.kind = "raise" THEN entries
                 ELSE AssignAndConstruct("Orderbook", data, "orders", entries.value)

SuccessOps ==
    {"get_version", "transfer_currency", "transfer_stock", "create_sell_order",
     "market_buy_stock", "cancel_sell_order", "buy_currency", "sell_currency"}

SymbolOps ==
    {"get_currency_info", "get_stock_info", "transfer_currency", "transfer_stock",
     "get_stock_orderbook", "create_sell_order", "market_buy_stock",
     "get_liquidity_info", "buy_currency", "sell_currency"}

Operations == SuccessOps \cup SymbolOps \cup
    {"get_config", "get_balance", "get_history", "get_my_stock_orders"}

\* the class an operation returns (the element class for the two lists)
ResultClass(op) ==
    CASE op \in SuccessOps            -> "SuccessResponse"
      [] op = "get_config"            -> "Config"
      [] op = "get_balance"           -> "Balance"
      [] op = "get_history"           -> "HistoryEntry"
      [] op = "get_my_stock_orders"   -> "UserOrder"
      [] op = "get_currency_info"     -> "CurrencyInfo"
      [] op = "get_stock_info"        -> "StockInfo"
      [] op = "get_stock_orderbook"   -> "Orderbook"
      [] op = "get_liquidity_info"    -> "LiquidityInfo"

\* the statements of an endpoint method that follow its call of _request
MapResponse(op, data) ==
    CASE op = "get_config"                              -> MapConfig(data)
      [] op = "get_stock_orderbook"                     -> MapOrderbook(data)
      [] op \in {"get_history", "get_my_stock_orders"}  -> Comprehension(ResultClass(op), data)
      [] OTHER                                          -> Construct(ResultClass(op), data)

\* an endpoint method, from the completion of session.request on: an
\* exception of _request propagates, a returned value is mapped
Endpoint(op, exchange) ==
    LET r == RequestOutcome(exchange)
    IN  IF r.kind = "raise" THEN r ELSE MapResponse(op, r.value)

(***************************************************************************)
(* The version check.                                                      *)
(***************************************************************************)
UnknownVersionWarning == [warning |-> "version unknown"]

MismatchWarning(client, server) ==
    [warning |-> "major version mismatch", client |-> client, server |-> server]

ConnectWarning(e) ==
    [warning |-> "version check failed", status_code |-> e.status_code,
     detail |-> e.detail]

\* how a run of _check_version ends: what it has printed and its outcome
Checked(printed, outcome) == [printed |-> printed, outcome |-> outcome]

\* CompareMajor comparing the whole version strings
CompareWhole(server_version_str) ==
    IF server_version_str.t # "str" THEN Checked(<< >>, Raise("AttributeError"))
    ELSE IF CLIENT_VERSION # server_version_str.s
         THEN Checked(<<MismatchWarning(CLIENT_VERSION, server_version_str.s)>>,
                      Return(None))
         ELSE Checked(<< >>, Return(None))

\* the comparison of the major versions, for a server version that is true
\* in a boolean context; a value without split() raises AttributeError
CompareMajor(server_version_str) ==
    IF server_version_str.t # "str" THEN Checked(<< >>, Raise("AttributeError"))
    ELSE LET client_major == SplitFirst(CLIENT_VERSION)
             server_major == SplitFirst(server_version_str.s)
         IN  IF client_major # server_major
             THEN Checked(<<MismatchWarning(CLIENT_VERSION, server_version_str.s)>>,
                          Return(None))
             ELSE Checked(<< >>, Return(None))

\* the try block of _check_version after get_version has returned
CheckResponse(server_version_response) ==
    LET details == server_version_response.f.details
    IN  IF details.t # "dict" THEN Checked(<< >>, Raise("AttributeError"))
        ELSE LET server_version_str ==
                     IF "version" \in DOMAIN details.f THEN details.f.version ELSE None
             IN  IF ~ Truthy(server_version_str)
                 THEN Checked(<<UnknownVersionWarning>>, Return(None))
                 ELSE CompareMajor(server_version_str)

\* which exceptions of get_version the except clause of _check_version catches
Caught(e) == e.exc = "RapidWireAPIError"

\* _check_version, from the completion of session.request on
CheckVersion(exchange) ==
    LET r == Endpoint("get_version", exchange)
    IN  IF r.kind = "raise"
        THEN IF Caught(r) THEN Checked(<<ConnectWarning(r)>>, Return(None))
             ELSE Checked(<< >>, r)
        ELSE CheckResponse(r.value)

(***************************************************************************)
(* The environment: the arguments callers pass and the exchanges the       *)
(* network and the server produce.                                         *)
(***************************************************************************)
Symbols == SeqsUpTo({"a", "B", "1"}, MaxSymLen) \ {<< >>}

Versions == SeqsUpTo({"1", "2", "."}, MaxVerLen)

ApiKeys == {<< >>, <<"secret">>}

BaseUrls == {<<"http://127.0.0.1:14550">>, <<"http://127.0.0.1:14550", "/">>}

Amounts == {-1, 0, 5}

Prices == {0, 3}

RecipientIds == {42}

OrderIds == {7}

Pages == {1, 2}

\* a field the dataclasses do not declare
WithExtra(doc) == PyDict(doc.f @@ [unknown_field |-> PyInt(1)])

Without(doc, key) == PyDict([k \in DOMAIN doc.f \ {key} |-> doc.f[k]])

With(doc, key, value) == PyDict([doc.f EXCEPT ![key] = value])

Variants(doc, key, wrong) ==
    {doc, WithExtra(doc), Without(doc, key), With(doc, key, wrong)}

GoodCurrency ==
    PyDict([id |-> PyInt(1), symbol |-> PyStr(<<"U", "S", "D">>),
            name |-> PyStr(<<"Dollar">>), supply |-> PyInt(100),
            issuer_id |-> None, description |-> PyStr(<<"base">>)])

GoodStock ==
    PyDict([id |-> PyInt(2), symbol |-> PyStr(<<"A", "C", "M", "E">>),
            name |-> PyStr(<<"Acme">>), supply |-> PyInt(50), issuer_id |-> PyInt(9),
            industry |-> None, overview |-> None])

GoodBalance ==
    PyDict([currencies |-> PyDict([USD |-> PyInt(100)]),
            stocks |-> PyDict([ACME |-> PyInt(5)])])

GoodHistoryEntry ==
    PyDict([type |-> PyStr(<<"currency">>), operation_type |-> PyStr(<<"transfer">>),
            timestamp |-> PyInt(1700000000), source |-> PyInt(1), dest |-> PyInt(2),
            symbol |-> PyStr(<<"U", "S", "D">>), amount |-> PyInt(3)])

GoodUserOrder ==
    PyDict([order_id |-> PyInt(7), stock_symbol |-> PyStr(<<"A", "C", "M", "E">>),
            price |-> PyInt(10), amount |-> PyInt(3), timestamp |-> PyInt(1700000000)])

GoodEntry == PyDict([price |-> PyInt(10), amount |-> PyInt(3)])

GoodOrderbook ==
    PyDict([stock_symbol |-> PyStr(<<"A", "C", "M", "E">>),
            orders |-> PyList(<<GoodEntry, With(GoodEntry, "price", PyInt(11))>>)])

GoodLiquidity ==
    PyDict([currency_symbol |-> PyStr(<<"U", "S", "D">>), base_liquidity |-> PyInt(10),
            pair_liquidity |-> PyInt(20), total_lp_points |-> PyInt(30)])

GoodConfig == PyDict([decimal_places |-> PyInt(2), base_currency |-> GoodCurrency])

GoodSuccess == PyDict([message |-> PyStr(<<"ok">>)])

VersionReply(details) == PyDict([message |-> PyStr(<<"RapidWire">>), details |-> details])

\* the JSON documents a server may answer an operation with, besides the
\* documents of CommonDocuments
ShapeDocuments(op) ==
    CASE op = "get_version" ->
           {VersionReply(PyDict([version |-> PyStr(v)])) : v \in Versions}
           \cup {VersionReply(None), VersionReply(EmptyDict),
                 VersionReply(PyDict([version |-> PyInt(2)])),
                 VersionReply(PyDict([version |-> None])),
                 Without(VersionReply(EmptyDict), "message")}
           \cup Variants(GoodSuccess, "message", PyInt(0))
      [] op \in SuccessOps \ {"get_version"} ->
           Variants(GoodSuccess, "message", PyInt(0))
           \cup {PyDict([message |-> PyStr(<<"ok">>), details |-> PyDict([id |-> PyInt(7)])])}
      [] op = "get_config" ->
           Variants(GoodConfig, "base_currency", PyStr(<<"U", "S", "D">>))
           \cup {With(GoodConfig, "base_currency", WithExtra(GoodCurrency)),
                 With(GoodConfig, "base_currency", With(GoodCurrency, "supply", PyStr(<<"100">>))),
                 With(GoodConfig, "decimal_places", PyStr(<<"2">>))}
      [] op = "get_balance" ->
           Variants(GoodBalance, "stocks", PyList(<< >>))
      [] op = "get_history" ->
           {PyList(<< >>), PyList(<<GoodHistoryEntry>>)}
           \cup {PyList(<<GoodHistoryEntry, d>>) :
                    d \in Variants(GoodHistoryEntry, "amount", PyStr(<<"3">>))}
      [] op = "get_my_stock_orders" ->
           {PyList(<< >>), PyList(<<GoodUserOrder>>), GoodUserOrder}
           \cup {PyList(<<d>>) : d \in Variants(GoodUserOrder, "price", PyStr(<<"10">>))}
      [] op = "get_currency_info" ->
           Variants(GoodCurrency, "issuer_id", PyStr(<<"9">>))
           \cup {With(GoodCurrency, "id", PyStr(<<"1">>))}
      [] op = "get_stock_info" ->
           Variants(GoodStock, "overview", PyInt(0))
      [] op = "get_stock_orderbook" ->
           Variants(GoodOrderbook, "orders", GoodEntry)
           \cup {With(GoodOrderbook, "orders", PyList(<<d>>)) :
                    d \in Variants(GoodEntry, "amount", PyStr(<<"3">>))}
      [] op = "get_liquidity_info" ->
           Variants(GoodLiquidity, "base_liquidity", PyStr(<<"10">>))

\* documents a server may answer any operation with
CommonDocuments ==
    {None, EmptyDict, PyList(<< >>),
     PyDict([detail |-> PyStr(<<"Not found">>)]),
     PyDict([detail |-> PyStr(<< >>)])}

\* bodies that are not JSON
PlainTexts == {<< >>, <<"Internal Server Error">>}

\* the text of a JSON document on the wire
Serialized(doc) == <<ToString(doc)>>

\* the statuses a body comes with; 204 and 304 come without a body
BodyStatuses == {200, 404}

EmptyStatuses == {204, 304}

FailureTexts == {<< >>, <<"Connection refused">>}

Exchanges(op) ==
    {HttpResponse(st, Serialized(doc), doc) :
        st \in BodyStatuses, doc \in ShapeDocuments(op) \cup CommonDocuments}
    \cup {HttpResponse(st, text, Undecodable) : st \in BodyStatuses, text \in PlainTexts}
    \cup {HttpResponse(st, << >>, Undecodable) : st \in EmptyStatuses}
    \cup {TransportFailure(e) : e \in FailureTexts}

(***************************************************************************)
(* The state.                                                              *)
(*   phase     "new" before construction, "constructing" while __init__    *)
(*             waits for GET /version, "ready" once __init__ has returned, *)
(*             "aborted" when __init__ has raised                          *)
(*   session   the requests.Session of the client and its base_url         *)
(*   wire      the request in flight                                       *)
(*   frame     the public call that is executing, with its arguments       *)
(*   last      the exchange and the outcome of the call that completed last*)
(*   stdout    what the client has printed                                 *)
(*   checks    how many times _check_version has been entered              *)
(*   attempts  how many requests the executing or last call has sent       *)
(***************************************************************************)
NoSession == [t |-> "none"]

NoRequest == [t |-> "none"]

Idle == [op |-> "idle"]

Nothing == [op |-> "none"]

Init ==
    /\ phase = "new"
    /\ session = NoSession
    /\ wire = NoRequest
    /\ frame = Idle
    /\ last = Nothing
    /\ stdout = << >>
    /\ checks = 0
    /\ attempts = 0

\* self._session.request(method, url, **kwargs) with url = base_url + endpoint
Request(method, endpoint, json, params) ==
    [t |-> "request", method |-> method, url |-> session.base_url \o endpoint,
     endpoint |-> endpoint, headers |-> session.headers,
     json |-> json, params |-> params]

\* the first request of __init__: _check_version -> get_version -> _request
VersionRequest(s) ==
    [t |-> "request", method |-> "GET", url |-> s.base_url \o <<"/version">>,
     endpoint |-> <<"/version">>, headers |-> s.headers,
     json |-> None, params |-> None]

\* New without the check of the API key
NewUnvalidated(api_key, base_url) ==
    /\ phase = "new"
    /\ LET s == [t |-> "session", base_url |-> RStripSlash(base_url),
                 headers |-> [API_Key |-> api_key,
                              Content_Type |-> "application/json"]]
       IN  /\ phase' = "constructing"
           /\ session' = s
           /\ checks' = checks + 1
           /\ frame' = [op |-> "__init__", args |-> [api_key |-> api_key]]
           /\ wire' = [t |-> "request", method |-> "GET",
                       url |-> s.base_url \o <<"/version">>,
                       endpoint |-> <<"/version">>, headers |-> s.headers,
                       json |-> None, params |-> None]
           /\ attempts' = 1
           /\ UNCHANGED <<last, stdout>>

\* RapidWireClient(api_key, base_url) up to its network wait
New(api_key, base_url) ==
    /\ phase = "new"
    /\ IF api_key = << >>
       THEN /\ phase' = "aborted"
            /\ last' = [op |-> "__init__", outcome |-> Raise("ValueError")]
            /\ UNCHANGED <<session, wire, frame, stdout, checks, attempts>>
       ELSE LET s == [t |-> "session", base_url |-> RStripSlash(base_url),
                      headers |-> [API_Key |-> api_key,
                                   Content_Type |-> "application/json"]]
            IN  /\ phase' = "constructing"
                /\ session' = s
                /\ checks' = checks + 1
                /\ frame' = [op |-> "__init__", args |-> [api_key |-> api_key]]
                /\ wire' = VersionRequest(s)
                /\ attempts' = 1
                /\ UNCHANGED <<last, stdout>>

\* the rest of __init__, once the exchange with /version has completed
Constructed ==
    /\ phase = "constructing"
    /\ \E exchange \in Exchanges("get_version") :
          LET c == CheckVersion(exchange)
          IN  /\ stdout' = stdout \o c.printed
              /\ phase' = IF c.outcome.kind = "return" THEN "ready" ELSE "aborted"
              /\ last' = [op |-> "__init__", exchange |-> exchange,
                          outcome |-> c.outcome]
    /\ wire' = NoRequest
    /\ frame' = Idle
    /\ UNCHANGED <<session, checks, attempts>>

\* _request up to its network wait, entered from the endpoint method op
Call(op, args, method, endpoint, json, params) ==
    /\ frame = Idle
    /\ frame' = [op |-> op, args |-> args]
    /\ wire' = Request(method, endpoint, json, params)
    /\ attempts' = 1
    /\ last' = Nothing
    /\ UNCHANGED <<phase, session, stdout, checks>>

get_version ==
    /\ phase = "ready"
    /\ Call("get_version", << >>, "GET", <<"/version">>, None, None)

get_config ==
    /\ phase = "ready"
    /\ Call("get_config", << >>, "GET", <<"/config">>, None, None)

get_balance ==
    /\ phase = "ready"
    /\ Call("get_balance", << >>, "GET", <<"/account/balance">>, None, None)

get_history(page) ==
    /\ phase = "ready"
    /\ Call("get_history", [page |-> page], "GET", <<"/account/history">>, None,
            PyDict([page |-> PyInt(page)]))

get_my_stock_orders ==
    /\ phase = "ready"
    /\ Call("get_my_stock_orders", << >>, "GET", <<"/account/stock/orders">>, None, None)

get_currency_info(symbol) ==
    /\ phase = "ready"
    /\ Call("get_currency_info", [symbol |-> symbol], "GET",
            <<"/currency/">> \o Upper(symbol), None, None)

get_stock_info(symbol) ==
    /\ phase = "ready"
    /\ Call("get_stock_info", [symbol |-> symbol], "GET",
            <<"/stock/">> \o Upper(symbol), None, None)

transfer_currency(recipient_id, asset_symbol, amount) ==
    /\ phase = "ready"
    /\ Call("transfer_currency",
            [recipient_id |-> recipient_id, symbol |-> asset_symbol, amount |-> amount],
            "POST", <<"/currency/transfer">>,
            PyDict([recipient_id |-> PyInt(recipient_id),
                    asset_symbol |-> PyStr(Upper(asset_symbol)),
                    amount |-> PyInt(amount)]),
            None)

\* transfer_stock sending the symbol as it was given
transfer_stock_as_given(recipient_id, asset_symbol, amount) ==
    /\ phase = "ready"
    /\ Call("transfer_stock",
            [recipient_id |-> recipient_id, symbol |-> asset_symbol, amount |-> amount],
            "POST", <<"/stock/transfer">>,
            PyDict([recipient_id |-> PyInt(recipient_id),
                    asset_symbol |-> PyStr(asset_symbol),
                    amount |-> PyInt(amount)]),
            None)

transfer_stock(recipient_id, asset_symbol, amount) ==
    /\ phase = "ready"
    /\ Call("transfer_stock",
            [recipient_id |-> recipient_id, symbol |-> asset_symbol, amount |-> amount],
            "POST", <<"/stock/transfer">>,
            PyDict([recipient_id |-> PyInt(recipient_id),
                    asset_symbol |-> PyStr(Upper(asset_symbol)),
                    amount |-> PyInt(amount)]),
            None)

get_stock_orderbook(symbol) ==
    /\ phase = "ready"
    /\ Call("get_stock_orderbook", [symbol |-> symbol], "GET",
            <<"/stock/">> \o Upper(symbol) \o <<"/orderbook">>, None, None)

create_sell_order(stock_symbol, price, amount) ==
    /\ phase = "ready"
    /\ Call("create_sell_order",
            [symbol |-> stock_symbol, price |-> price, amount |-> amount],
            "POST", <<"/market/stock/sell-order">>,
            PyDict([stock_symbol |-> PyStr(Upper(stock_symbol)),
                    price |-> PyInt(price),
                    amount |-> PyInt(amount)]),
            None)

market_buy_stock(stock_symbol, amount) ==
    /\ phase = "ready"
    /\ Call("market_buy_stock", [symbol |-> stock_symbol, amount |-> amount],
            "POST", <<"/market/stock/market-buy">>,
            PyDict([stock_symbol |-> PyStr(Upper(stock_symbol)),
                    amount |-> PyInt(amount)]),
            None)

cancel_sell_order(order_id) ==
    /\ phase = "ready"
    /\ Call("cancel_sell_order", [order_id |-> order_id], "DELETE",
            <<"/market/stock/sell-order/", ToString(order_id)>>, None, None)

get_liquidity_info(symbol) ==
    /\ phase = "ready"
    /\ Call("get_liquidity_info", [symbol |-> symbol], "GET",
            <<"/market/currency/liquidity/">> \o Upper(symbol), None, None)

buy_currency(currency_symbol, amount_in) ==
    /\ phase = "ready"
    /\ Call("buy_currency", [symbol |-> currency_symbol, amount |-> amount_in],
            "POST", <<"/market/currency/buy">>,
            PyDict([currency_symbol |-> PyStr(Upper(currency_symbol)),
                    amount |-> PyInt(amount_in)]),
            None)

sell_currency(currency_symbol, amount_in) ==
    /\ phase = "ready"
    /\ Call("sell_currency", [symbol |-> currency_symbol, amount |-> amount_in],
            "POST", <<"/market/currency/sell">>,
            PyDict([currency_symbol |-> PyStr(Upper(currency_symbol)),
                    amount |-> PyInt(amount_in)]),
            None)

\* the rest of an endpoint method, once its exchange has completed
Completed ==
    /\ phase = "ready"
    /\ frame # Idle
    /\ \E exchange \in Exchanges(frame.op) :
          last' = [op |-> frame.op, exchange |-> exchange,
                   outcome |-> Endpoint(frame.op, exchange)]
    /\ frame' = Idle
    /\ wire' = NoRequest
    /\ UNCHANGED <<phase, session, stdout, checks, attempts>>

Next ==
    \/ \E api_key \in ApiKeys, base_url \in BaseUrls : New(api_key, base_url)
    \/ Constructed
    \/ get_version
    \/ get_config
    \/ get_balance
    \/ \E page \in Pages : get_history(page)
    \/ get_my_stock_orders
    \/ \E symbol \in Symbols : get_currency_info(symbol)
    \/ \E symbol \in Symbols : get_stock_info(symbol)
    \/ \E r \in RecipientIds, symbol \in Symbols, amount \in Amounts :
          transfer_currency(r, symbol, amount)
    \/ \E r \in RecipientIds, symbol \in Symbols, amount \in Amounts :
          transfer_stock(r, symbol, amount)
    \/ \E symbol \in Symbols : get_stock_orderbook(symbol)
    \/ \E symbol \in Symbols, price \in Prices, amount \in Amounts :
          create_sell_order(symbol, price, amount)
    \/ \E symbol \in Symbols, amount \in Amounts : market_buy_stock(symbol, amount)
    \/ \E order_id \in OrderIds : cancel_sell_order(order_id)
    \/ \E symbol \in Symbols : get_liquidity_info(symbol)
    \/ \E symbol \in Symbols, amount \in Amounts : buy_currency(symbol, amount)
    \/ \E symbol \in Symbols, amount \in Amounts : sell_currency(symbol, amount)
    \/ Completed

Spec == Init /\ [][Next]_vars

(***************************************************************************)
(* Vocabulary of the properties.                                           *)
(***************************************************************************)
\* the call that completed last was an exchange of __init__ / of an endpoint
InitCompleted == last.op = "__init__" /\ "exchange" \in DOMAIN last

EndpointCompleted == last.op \in Operations

Answered == (InitCompleted \/ EndpointCompleted) /\ last.exchange.kind = "http"

Is2xx(status_code) == status_code >= 200 /\ status_code < 300

RaisedApiError == last.outcome.kind = "raise" /\ last.outcome.exc = "RapidWireAPIError"

\* C1: constructing RapidWireClient with a non-empty API key never raises
\* because of the version check: whatever the exchange with GET /version
\* was, __init__ returns a usable client and prints at most one warning.
C1_ConstructionNeverRaises ==
    InitCompleted =>
        /\ last.outcome = Return(None)
        /\ phase = "ready"
        /\ Len(stdout) <= 1

\* the detail the error of a non-2xx response carries according to C2
C2_Detail(response) ==
    IF response.json # Undecodable /\ response.json.t = "dict"
       /\ "detail" \in DOMAIN response.json.f
    THEN response.json.f.detail
    ELSE IF response.text # << >> THEN PyStr(response.text)
    ELSE PyStr(<<"Unknown error">>)

\* C2: for every non-2xx response answering an endpoint call, the call raises
\* RapidWireAPIError whose detail is the 'detail' field of a JSON body that
\* has one, otherwise the raw body text when the body is not empty, and
\* "Unknown error" when the body is empty.
C2_DetailResolution ==
    (EndpointCompleted /\ Answered /\ ~ Is2xx(last.exchange.status_code)) =>
        /\ RaisedApiError
        /\ last.outcome.detail = C2_Detail(last.exchange)

\* C3: every public operation answered with status 204 returns None: no
\* record, no mapping failure, no other exception.
C3_NoContentReturnsNone ==
    (EndpointCompleted /\ Answered /\ last.exchange.status_code = 204) =>
        last.outcome = Return(None)

\* C4: every non-2xx response makes the call raise RapidWireAPIError with the
\* status code of the response, whatever the body is; it is not re-wrapped
\* as a status-500 error and no other exception type escapes.
C4_ErrorCarriesStatus ==
    (EndpointCompleted /\ Answered /\ ~ Is2xx(last.exchange.status_code)) =>
        /\ RaisedApiError
        /\ last.outcome.status_code = last.exchange.status_code

\* an API error as C5 describes it: status 500 and a detail that is a
\* non-empty string
C5_TransportError(e) ==
    /\ e.status_code = 500
    /\ e.detail.t = "str"
    /\ e.detail.s # << >>

\* C5: a transport failure during a call made through _request raises
\* RapidWireAPIError with status_code 500 and a non-empty detail, after one
\* request attempt; an endpoint call gives that error to its caller and no
\* other exception, the version check of __init__ prints it as its warning.
C5_TransportFailure ==
    /\ (EndpointCompleted /\ last.exchange.kind = "failure") =>
          /\ RaisedApiError
          /\ C5_TransportError(last.outcome)
          /\ attempts = 1
    /\ (InitCompleted /\ last.exchange.kind = "failure") =>
          /\ Len(stdout) = 1
          /\ stdout[1].warning = "version check failed"
          /\ C5_TransportError(stdout[1])
          /\ attempts = 1

\* C5 witness: an endpoint call has met a transport failure whose
\* description is empty
C5_Witness ==
    /\ EndpointCompleted
    /\ last.exchange = TransportFailure(<< >>)
    /\ last.op = "transfer_currency"

RECURSIVE C6_HasType(_, _)
RECURSIVE C6_WellTyped(_)
\* the value v has the declared type ty
C6_HasType(v, ty) ==
    CASE ty = "int"          -> v.t = "int"
      [] ty = "str"          -> v.t = "str"
      [] ty = "opt_int"      -> v.t \in {"None", "int"}
      [] ty = "opt_str"      -> v.t \in {"None", "str"}
      [] ty = "opt_dict"     -> v.t \in {"None", "dict"}
      [] ty = "dict_str_int" ->
           v.t = "dict" /\ \A k \in DOMAIN v.f : v.f[k].t = "int"
      [] ty = "list_OrderbookEntry" ->
           /\ v.t = "list"
           /\ \A i \in 1..Len(v.a) :
                 /\ v.a[i].t = "inst"
                 /\ v.a[i].cls = "OrderbookEntry"
                 /\ C6_WellTyped(v.a[i])
      [] ty = "CurrencyInfo" ->
           v.t = "inst" /\ v.cls = "CurrencyInfo" /\ C6_WellTyped(v)

\* every field of the record holds a value of its declared type
C6_WellTyped(record) ==
    \A k \in Fields(record.cls) : C6_HasType(record.f[k], FieldTypes(record.cls)[k])

\* C6: response mapping fails closed: a record that an endpoint operation
\* returns (alone or in a list) holds, in every field, a value of the
\* field's declared type.
C6_MappingFailsClosed ==
    (EndpointCompleted /\ last.outcome.kind = "return") =>
        LET v == last.outcome.value
        IN  /\ v.t = "inst" => C6_WellTyped(v)
            /\ v.t = "list" => \A i \in 1..Len(v.a) : C6_WellTyped(v.a[i])

\* the operations that return a flat record
C7_FlatOps ==
    SuccessOps \cup {"get_balance", "get_currency_info", "get_stock_info",
                     "get_liquidity_info"}

\* C7: a successful JSON object that holds every required field of a flat
\* record, and unknown fields besides, maps to the record of its known
\* fields; the unknown fields are ignored.
C7_ExtraFieldsIgnored ==
    (/\ EndpointCompleted
     /\ last.op \in C7_FlatOps
     /\ Answered
     /\ last.exchange.status_code = 200
     /\ last.exchange.json # Undecodable
     /\ last.exchange.json.t = "dict"
     /\ Required(ResultClass(last.op)) \subseteq DOMAIN last.exchange.json.f) =>
        LET cls == ResultClass(last.op)
            doc == last.exchange.json.f
        IN  last.outcome =
               Return(Instance(cls, [k \in Fields(cls) |->
                          IF k \in DOMAIN doc THEN doc[k] ELSE Defaults(cls)[k]]))

\* the lowercase ASCII letters among the characters of the model
LowerCaseLetters == {"a", "b"}

HasLowerCase(s) == \E i \in 1..Len(s) : s[i] \in LowerCaseLetters

\* the symbol a request carries, in its path or in its JSON body
C8_SymbolSent(op, request) ==
    CASE op \in {"get_currency_info", "get_stock_info", "get_liquidity_info"} ->
           Tail(request.endpoint)
      [] op = "get_stock_orderbook" ->
           SubSeq(request.endpoint, 2, Len(request.endpoint) - 1)
      [] op \in {"transfer_currency", "transfer_stock"} ->
           request.json.f.asset_symbol.s
      [] op \in {"create_sell_order", "market_buy_stock"} ->
           request.json.f.stock_symbol.s
      [] op \in {"buy_currency", "sell_currency"} ->
           request.json.f.currency_symbol.s

\* the numeric arguments of the call are in the JSON body as they were given
C8_NumbersUnchanged(args, request) ==
    /\ "amount" \in DOMAIN args => request.json.f.amount = PyInt(args.amount)
    /\ "price" \in DOMAIN args => request.json.f.price = PyInt(args.price)
    /\ "recipient_id" \in DOMAIN args =>
          request.json.f.recipient_id = PyInt(args.recipient_id)

\* C8: the symbol in the path or body of every request of an operation that
\* takes a symbol is the uppercased argument and holds no lowercase letter;
\* recipient id, price and amount (zero and negative too) are sent unchanged.
C8_SymbolsUppercased ==
    (wire # NoRequest /\ frame.op \in SymbolOps) =>
        LET sent == C8_SymbolSent(frame.op, wire)
            given == frame.args.symbol
        IN  /\ Len(sent) = Len(given)
            /\ \A i \in 1..Len(sent) :
                  sent[i] = (CASE given[i] = "a" -> "A"
                               [] given[i] = "b" -> "B"
                               [] OTHER          -> given[i])
            /\ ~ HasLowerCase(sent)
            /\ ~ HasLowerCase(wire.endpoint)
            /\ C8_NumbersUnchanged(frame.args, wire)

\* C8 witness: a sell order for a mixed-case symbol with a negative amount
\* and a zero price is in flight
C8_Witness ==
    /\ wire # NoRequest
    /\ frame.op = "create_sell_order"
    /\ frame.args = [symbol |-> <<"a", "B">>, price |-> 0, amount |-> -1]

\* C9: the version check runs exactly once in the lifetime of a client.  A
\* construction with a non-empty key enters _check_version once and has one
\* GET /version in flight, with the session's API-Key header, before
\* __init__ returns; a construction with an empty key raises with no request
\* sent; after __init__ has returned, requests are those of endpoint calls
\* and the check is not entered again.
C9_VersionCheckOnce ==
    /\ phase = "new" => checks = 0 /\ attempts = 0 /\ wire = NoRequest
    /\ phase = "constructing" =>
          /\ checks = 1
          /\ attempts = 1
          /\ session # NoSession
          /\ session.headers.API_Key # << >>
          /\ wire # NoRequest
          /\ wire.method = "GET"
          /\ wire.endpoint = <<"/version">>
          /\ wire.headers = session.headers
    /\ phase = "ready" =>
          /\ checks = 1
          /\ InitCompleted => attempts = 1
          /\ wire # NoRequest => frame.op \in Operations
    /\ (phase = "aborted" /\ ~ InitCompleted) =>
          /\ last.outcome = Raise("ValueError")
          /\ checks = 0
          /\ attempts = 0
          /\ session = NoSession
          /\ wire = NoRequest
    /\ (phase = "aborted" /\ InitCompleted) => checks = 1 /\ attempts = 1

\* C9 witness: an endpoint call has completed after the construction
C9_Witness ==
    /\ phase = "ready"
    /\ last.op = "get_balance"
    /\ last.outcome.kind = "return"
    /\ checks = 1

\* the substring of s before its first '.'
C10_Major(s) ==
    LET dots == {i \in 1..Len(s) : s[i] = "."}
    IN  IF dots = {} THEN s
        ELSE SubSeq(s, 1, (CHOOSE i \in dots : \A j \in dots : i <= j) - 1)

\* GET /version has succeeded with a non-empty version string
C10_VersionReported ==
    /\ InitCompleted
    /\ Answered
    /\ last.exchange.status_code = 200
    /\ last.exchange.json # Undecodable
    /\ last.exchange.json.t = "dict"
    /\ DOMAIN last.exchange.json.f = {"message", "details"}
    /\ last.exchange.json.f.details.t = "dict"
    /\ "version" \in DOMAIN last.exchange.json.f.details.f
    /\ last.exchange.json.f.details.f.version.t = "str"
    /\ last.exchange.json.f.details.f.version.s # << >>

\* C10: when GET /version succeeds with a non-empty version string, the
\* constructor prints a warning exactly if the part of the server version
\* before its first '.' is not "1": nothing on a match, one warning naming
\* both versions on a mismatch; either way __init__ returns and endpoint
\* calls can be made.
C10_WarningIffMajorDiffers ==
    C10_VersionReported =>
        LET server == last.exchange.json.f.details.f.version.s
        IN  /\ last.outcome = Return(None)
            /\ phase = "ready"
            /\ ENABLED get_config
            /\ C10_Major(server) = <<"1">> => stdout = << >>
            /\ C10_Major(server) # <<"1">> =>
                  stdout = <<[warning |-> "major version mismatch",
                              client |-> <<"1", ".", "0", ".", "0">>,
                              server |-> server]>>

\* C10 witness: an endpoint call has been answered on a client whose
\* construction warned about server version "2."
C10_Witness ==
    /\ phase = "ready"
    /\ EndpointCompleted
    /\ last.exchange.kind = "http"
    /\ stdout = <<MismatchWarning(CLIENT_VERSION, <<"2", ".">>)>>

====
